---- MODULE Spec2Model ----
(***************************************************************************)
(* Model of Password_Policy_Checker.py: the strength checker, the password *)
(* history (a deque bounded to 24 SHA-256 digests), the expiry check and   *)
(* the demonstration block run under __main__.                             *)
(*                                                                         *)
(* A password is a sequence of characters, each character a one-character  *)
(* string (TLC cannot index into a string). Time is counted in whole       *)
(* seconds; for whole seconds below 2^53 the float division of line 57 is  *)
(* correctly rounded, so the exact quotient modelled here decides the      *)
(* comparison of line 58 the same way. Passwords are strings that          *)
(* str.encode() accepts (no lone surrogates).                              *)
(***************************************************************************)
EXTENDS Integers, Sequences, FiniteSets, TLC

----------------------------------------------------------------------------
(* Program constants (lines 14-15).                                        *)

PASSWORD_EXPIRATION_DAYS == 90

PASSWORD_HISTORY_LIMIT == 24

(* Seconds in PASSWORD_EXPIRATION_DAYS days: the divisor of line 57 times  *)
(* the threshold of line 58.                                               *)
ExpirationSeconds == PASSWORD_EXPIRATION_DAYS * (24 * 3600)

----------------------------------------------------------------------------
(* Bounds of the model.                                                    *)

\* Number of update_password_data calls in one run.
MaxChanges == 26

\* The first MaxFree recorded passwords and the last one of a run are
\* arbitrary; those in between are FillPassword (the long tail that fills
\* and then rotates the history).
MaxFree == 2

\* The clock takes the values k * ExpirationSeconds + j,
\* k in 0..MaxPeriods, j in 0..MaxJitter.
MaxPeriods == 1

MaxJitter == 1

\* Strength-check inputs are built from cores of at most MaxCoreLen characters.
MaxCoreLen == 4

----------------------------------------------------------------------------
(* Characters and the regular expressions of lines 73-79.                  *)

UpperChars ==
    {"A", "B", "C", "D", "E", "F", "G", "H", "I", "J", "K", "L", "M",
     "N", "O", "P", "Q", "R", "S", "T", "U", "V", "W", "X", "Y", "Z"}

LowerChars ==
    {"a", "b", "c", "d", "e", "f", "g", "h", "i", "j", "k", "l", "m",
     "n", "o", "p", "q", "r", "s", "t", "u", "v", "w", "x", "y", "z"}

\* r'\d' on a str pattern matches every Unicode decimal digit, not only
\* 0-9; "U+0663" stands for ARABIC-INDIC DIGIT THREE.
DigitChars == {"0", "1", "2", "3", "4", "5", "6", "7", "8", "9", "U+0663"}

\* r'[!@#$%^&*(),.?\":{}|<>]': inside the class \" is an escaped double
\* quote, so the backslash itself is not a member.
SpecialChars ==
    {"!", "@", "#", "$", "%", "^", "&", "*", "(", ")", ",", ".", "?", "\"",
     ":", "{", "}", "|", "<", ">"}

RECURSIVE re_search_from(_, _, _)
re_search_from(class, string, i) ==
    IF i > Len(string) THEN FALSE
    ELSE IF string[i] \in class THEN TRUE
    ELSE re_search_from(class, string, i + 1)

\* re.search(r'[class]', string) is not None: scan from the left for the
\* first position that matches.
re_search(class, string) == re_search_from(class, string, 1)

----------------------------------------------------------------------------
(* check_password_strength (lines 62-83).                                  *)

MsgLength == "Password must be at least 14 characters long."

MsgUpper == "Password must contain at least one uppercase letter."

MsgLower == "Password must contain at least one lowercase letter."

MsgDigit == "Password must contain at least one digit."

MsgSpecial == "Password must contain at least one special character."

\* A variant that stops at the first failed rule.
check_password_strength_shortcircuit(password) ==
    LET first ==
            IF Len(password) < 14 THEN <<MsgLength>>
            ELSE IF ~re_search(UpperChars, password) THEN <<MsgUpper>>
            ELSE IF ~re_search(LowerChars, password) THEN <<MsgLower>>
            ELSE IF ~re_search(DigitChars, password) THEN <<MsgDigit>>
            ELSE IF ~re_search(SpecialChars, password) THEN <<MsgSpecial>>
            ELSE <<>>
    IN  <<Len(first) = 0, first>>

check_password_strength(password) ==
    LET issues0 == <<>>
        issues1 == IF Len(password) < 14
                   THEN Append(issues0, MsgLength) ELSE issues0
        issues2 == IF ~re_search(UpperChars, password)
                   THEN Append(issues1, MsgUpper) ELSE issues1
        issues3 == IF ~re_search(LowerChars, password)
                   THEN Append(issues2, MsgLower) ELSE issues2
        issues4 == IF ~re_search(DigitChars, password)
                   THEN Append(issues3, MsgDigit) ELSE issues3
        issues5 == IF ~re_search(SpecialChars, password)
                   THEN Append(issues4, MsgSpecial) ELSE issues4
        is_strong == Len(issues5) = 0
    IN  <<is_strong, issues5>>

----------------------------------------------------------------------------
(* hash_password (lines 19-20) on the passwords of the model: the          *)
(* SHA-256 hex digests of their UTF-8 encodings.                           *)

EmptyPassword == <<>>

WeakPassword == <<"w", "e", "a", "k">>

\* test_password of line 87.
StrongPassword ==
    <<"S", "t", "r", "o", "n", "g", "P", "a", "s", "s", "w", "0", "r", "d", "!">>

Passwords == {EmptyPassword, WeakPassword, StrongPassword}

FillPassword == StrongPassword

hash_password(password) ==
    CASE password = EmptyPassword ->
           "e3b0c44298fc1c149afbf4c8996fb92427ae41e4649b934ca495991b7852b855"
      [] password = WeakPassword ->
           "481ba4019c9d2710c3386537382592c093ef02bf5b056c30237b3d92b0e19a1d"
      [] password = StrongPassword ->
           "613264468d337ec48cdc4344d1cc0eb32cf8f1c92b288488a33c8226cee6052d"

----------------------------------------------------------------------------
(* collections.deque(maxlen=...) as used on lines 26, 42 and 49.           *)

\* A deque that discards the new item when it is full.
deque_append_dropnew(d, x, maxlen) ==
    IF Len(d) >= maxlen THEN d ELSE Append(d, x)

\* A deque that never evicts.
deque_append_unbounded(d, x, maxlen) == Append(d, x)

\* deque.append: add on the right; when that makes the deque longer than
\* maxlen, discard one item from the left.
deque_append(d, x, maxlen) ==
    LET appended == Append(d, x)
    IN  IF Len(appended) > maxlen
        THEN SubSeq(appended, 2, Len(appended))
        ELSE appended

RECURSIVE deque_contains_from(_, _, _)
deque_contains_from(d, x, i) ==
    IF i > Len(d) THEN FALSE
    ELSE IF d[i] = x THEN TRUE
    ELSE deque_contains_from(d, x, i + 1)

\* x in deque: linear scan from the left.
deque_contains(d, x) == deque_contains_from(d, x, 1)

----------------------------------------------------------------------------
(* The password record and the operations on it.                           *)

\* Optional timestamp: None is <<>>, a timestamp t is <<t>>.
None == <<>>

Some(t) == <<t>>

\* user_password_data as constructed on lines 24-27.
InitialPasswordData ==
    [last_password_changed |-> None, password_history |-> <<>>]

\* An update that refuses a password already in the history.
update_password_data_dedup(data, new_password, current_time) ==
    IF deque_contains(data.password_history, hash_password(new_password))
    THEN [data |-> data, ret |-> FALSE]
    ELSE [data |-> [last_password_changed |-> Some(current_time),
                    password_history |->
                        deque_append(data.password_history,
                                     hash_password(new_password),
                                     PASSWORD_HISTORY_LIMIT)],
          ret |-> TRUE]

\* An update that forgets to stamp the time.
update_password_data_nostamp(data, new_password, current_time) ==
    [data |-> [last_password_changed |-> data.last_password_changed,
               password_history |->
                   deque_append(data.password_history,
                                hash_password(new_password),
                                PASSWORD_HISTORY_LIMIT)],
     ret |-> TRUE]

\* update_password_data (lines 39-43): the record after the call and the
\* value returned.
update_password_data(data, new_password, current_time) ==
    LET stamped == [data EXCEPT !.last_password_changed = Some(current_time)]
        appended == [stamped EXCEPT !.password_history =
                        deque_append(@, hash_password(new_password),
                                     PASSWORD_HISTORY_LIMIT)]
    IN  [data |-> appended, ret |-> TRUE]

\* A reuse check that skips the newest entry.
is_password_reused_skipnewest(data, new_password) ==
    LET h == data.password_history
    IN  deque_contains(SubSeq(h, 1, Len(h) - 1), hash_password(new_password))

\* is_password_reused (lines 47-49).
is_password_reused(data, new_password) ==
    LET hashed == hash_password(new_password)
    IN  deque_contains(data.password_history, hashed)

\* An expiry check that truncates the day count (// instead of /).
is_password_expired_floor(data, current_time) ==
    IF data.last_password_changed = None THEN TRUE
    ELSE ((current_time - data.last_password_changed[1]) \div (24 * 3600))
            > PASSWORD_EXPIRATION_DAYS

\* An expiry check that treats a never-set password as valid.
is_password_expired_unset_valid(data, current_time) ==
    IF data.last_password_changed = None THEN FALSE
    ELSE (current_time - data.last_password_changed[1]) > ExpirationSeconds

\* is_password_expired (lines 53-58). days_since_change is the exact
\* quotient whole + frac / (24 * 3600); it exceeds the threshold when its
\* whole part does, or equals it with a nonzero fraction.
is_password_expired(data, current_time) ==
    IF data.last_password_changed = None THEN TRUE
    ELSE LET elapsed == current_time - data.last_password_changed[1]
             whole == elapsed \div (24 * 3600)
             frac == elapsed % (24 * 3600)
         IN  \/ whole > PASSWORD_EXPIRATION_DAYS
             \/ whole = PASSWORD_EXPIRATION_DAYS /\ frac > 0

----------------------------------------------------------------------------
(* create_banner (lines 31-35): the three lines it prints.                 *)

RECURSIVE Stars(_)
Stars(n) == IF n = 0 THEN "" ELSE "*" \o Stars(n - 1)

create_banner(message) ==
    LET border == Stars(Len(message) + 4)
    IN  <<border, "* " \o message \o " *", border>>

----------------------------------------------------------------------------
(* State.                                                                  *)

VARIABLES
    user_password_data,  \* the module-level record of lines 24-27
    now,                 \* what time.time() returns, in seconds
    calls,               \* passwords passed to update_password_data so far
    op,                  \* the last step taken
    arg,                 \* its password argument (<<>> when it has none)
    ret,                 \* the value it returned
    pc,                  \* position in the __main__ block
    test_password,       \* local of the __main__ block (line 87)
    is_strong,           \* local of the __main__ block (line 88)
    issues,              \* local of the __main__ block (line 88)
    reused,              \* value of the condition of line 96
    stdout               \* lines printed so far

vars == <<user_password_data, now, calls, op, arg, ret,
          pc, test_password, is_strong, issues, reused, stdout>>

mainVars == <<pc, test_password, is_strong, issues, reused, stdout>>

callVars == <<op, arg, ret>>

ClockValues ==
    {k * ExpirationSeconds + j : k \in 0..MaxPeriods, j \in 0..MaxJitter}

\* Every subset of the character classes occurs among the cores: one
\* character per class, one that is in no class ("_" and the backslash),
\* the escaped quote and a non-ASCII digit.
StrengthAlphabet == {"A", "z", "7", "!", "_", "\"", "\\", "U+0663"}

Cores == UNION {[1..n -> StrengthAlphabet] : n \in 0..MaxCoreLen}

\* core padded on the right with copies of its first character up to
\* length n (unchanged when it is empty or already that long).
Stretch(core, n) ==
    IF Len(core) = 0 \/ Len(core) >= n THEN core
    ELSE core \o [i \in 1..(n - Len(core)) |-> core[1]]

StrengthInputs == {Stretch(core, n) : core \in Cores, n \in {0, 14 - 1, 14}}

----------------------------------------------------------------------------
(* The functions called by a client of the module, in any order.           *)

Init ==
    /\ user_password_data = InitialPasswordData
    /\ now \in ClockValues
    /\ calls = <<>>
    /\ op = "init"
    /\ arg = <<>>
    /\ ret = <<>>
    /\ pc = "imported"
    /\ test_password = StrongPassword
    /\ is_strong = FALSE
    /\ issues = <<>>
    /\ reused = FALSE
    /\ stdout = <<>>

\* The clock moves forward between calls.
Tick ==
    /\ \E t \in ClockValues : t > now /\ now' = t
    /\ op' = "tick"
    /\ arg' = <<>>
    /\ ret' = <<>>
    /\ UNCHANGED <<user_password_data, calls, mainVars>>

UpdatePasswordData(new_password) ==
    /\ Len(calls) < MaxChanges
    /\ \/ Len(calls) < MaxFree
       \/ Len(calls) = MaxChanges - 1
       \/ new_password = FillPassword
    /\ LET r == update_password_data(user_password_data, new_password, now)
       IN  /\ user_password_data' = r.data
           /\ ret' = r.ret
    /\ calls' = Append(calls, new_password)
    /\ op' = "update_password_data"
    /\ arg' = new_password
    /\ UNCHANGED <<now, mainVars>>

\* A reuse check that also records the password it was asked about.
IsPasswordReused_recording(new_password) ==
    /\ ret' = is_password_reused(user_password_data, new_password)
    /\ user_password_data' =
         [user_password_data EXCEPT !.password_history =
            deque_append(@, hash_password(new_password),
                         PASSWORD_HISTORY_LIMIT)]
    /\ op' = "is_password_reused"
    /\ arg' = new_password
    /\ UNCHANGED <<now, calls, mainVars>>

IsPasswordReused(new_password) ==
    /\ ret' = is_password_reused(user_password_data, new_password)
    /\ op' = "is_password_reused"
    /\ arg' = new_password
    /\ UNCHANGED <<user_password_data, now, calls, mainVars>>

IsPasswordExpired ==
    /\ ret' = is_password_expired(user_password_data, now)
    /\ op' = "is_password_expired"
    /\ arg' = <<>>
    /\ UNCHANGED <<user_password_data, now, calls, mainVars>>

CheckPasswordStrength(password) ==
    /\ ret' = check_password_strength(password)
    /\ op' = "check_password_strength"
    /\ arg' = password
    /\ UNCHANGED <<user_password_data, now, calls, mainVars>>

Next ==
    \/ Tick
    \/ \E p \in Passwords : UpdatePasswordData(p)
    \/ \E p \in Passwords : IsPasswordReused(p)
    \/ IsPasswordExpired
    \/ \E p \in Passwords : CheckPasswordStrength(p)

Spec == Init /\ [][Next]_vars

----------------------------------------------------------------------------
(* check_password_strength as a pure function of its input.                *)

InitStrength ==
    /\ user_password_data = InitialPasswordData
    /\ now = 0
    /\ calls = <<>>
    /\ op = "input"
    /\ arg \in StrengthInputs
    /\ ret = <<>>
    /\ pc = "imported"
    /\ test_password = StrongPassword
    /\ is_strong = FALSE
    /\ issues = <<>>
    /\ reused = FALSE
    /\ stdout = <<>>

ApplyStrength ==
    /\ op = "input"
    /\ CheckPasswordStrength(arg)

NextStrength == ApplyStrength

SpecStrength == InitStrength /\ [][NextStrength]_vars

----------------------------------------------------------------------------
(* The __main__ block (lines 85-105), run once on a fresh record.          *)

\* Line 87 binds the example value StrongPassword; the flow of lines
\* 88-105 is modelled for any example password.
InitMain ==
    /\ user_password_data = InitialPasswordData
    /\ now \in ClockValues
    /\ calls = <<>>
    /\ op = "init"
    /\ arg = <<>>
    /\ ret = <<>>
    /\ pc = "line88"
    /\ test_password \in Passwords
    /\ is_strong = FALSE
    /\ issues = <<>>
    /\ reused = FALSE
    /\ stdout = <<>>

\* The clock moves forward between statements.
MainTick ==
    /\ pc # "done"
    /\ \E t \in ClockValues : t > now /\ now' = t
    /\ UNCHANGED <<user_password_data, calls, callVars, mainVars>>

\* Line 88.
MainCheckStrength ==
    /\ pc = "line88"
    /\ LET r == check_password_strength(test_password)
       IN  /\ is_strong' = r[1]
           /\ issues' = r[2]
    /\ pc' = "line89"
    /\ UNCHANGED <<user_password_data, now, calls, callVars,
                   test_password, reused, stdout>>

\* Lines 89-94.
MainReportStrength ==
    /\ pc = "line89"
    /\ stdout' =
         IF is_strong
         THEN stdout \o create_banner("Password is strong.")
         ELSE stdout \o create_banner("Password is weak. Issues:")
                     \o [i \in 1..Len(issues) |-> "- " \o issues[i]]
    /\ pc' = "line96"
    /\ UNCHANGED <<user_password_data, now, calls, callVars,
                   test_password, is_strong, issues, reused>>

\* The condition of line 96.
MainCheckReuse ==
    /\ pc = "line96"
    /\ reused' = is_password_reused(user_password_data, test_password)
    /\ pc' = "line97"
    /\ UNCHANGED <<user_password_data, now, calls, callVars,
                   test_password, is_strong, issues, stdout>>

\* Lines 97-100: both branches of the if of line 96.
MainUpdate ==
    /\ pc = "line97"
    /\ IF reused
       THEN /\ stdout' = stdout \o create_banner(
                 "Password has been used before. Choose a different one.")
            /\ UNCHANGED <<user_password_data, calls>>
       ELSE /\ user_password_data' =
                 update_password_data(user_password_data, test_password, now).data
            /\ calls' = Append(calls, test_password)
            /\ stdout' = stdout \o create_banner("Password updated successfully.")
    /\ pc' = "line102"
    /\ UNCHANGED <<now, callVars, test_password, is_strong, issues, reused>>

\* Lines 102-105.
MainCheckExpired ==
    /\ pc = "line102"
    /\ stdout' =
         IF is_password_expired(user_password_data, now)
         THEN stdout \o create_banner(
                "Password has expired. Please change your password.")
         ELSE stdout \o create_banner("Password is still valid.")
    /\ pc' = "done"
    /\ UNCHANGED <<user_password_data, now, calls, callVars,
                   test_password, is_strong, issues, reused>>

NextMain ==
    \/ MainTick
    \/ MainCheckStrength
    \/ MainReportStrength
    \/ MainCheckReuse
    \/ MainUpdate
    \/ MainCheckExpired

SpecMain == InitMain /\ [][NextMain]_vars

----------------------------------------------------------------------------
(* Properties.                                                             *)

History == user_password_data.password_history

LastChanged == user_password_data.last_password_changed

Min(a, b) == IF a <= b THEN a ELSE b

\* password is among the n most recent update_password_data calls.
AmongLastCalls(password, n) ==
    \E i \in 1..Len(calls) : i > Len(calls) - n /\ calls[i] = password

HasChar(class, password) == \E i \in 1..Len(password) : password[i] \in class

RuleViolated(msg, password) ==
    CASE msg = MsgLength -> Len(password) < 14
      [] msg = MsgUpper -> ~HasChar(UpperChars, password)
      [] msg = MsgLower -> ~HasChar(LowerChars, password)
      [] msg = MsgDigit -> ~HasChar(DigitChars, password)
      [] msg = MsgSpecial -> ~HasChar(SpecialChars, password)

RulesInOrder == <<MsgLength, MsgUpper, MsgLower, MsgDigit, MsgSpecial>>

ExpectedIssues(password) ==
    LET Violated(msg) == RuleViolated(msg, password)
    IN  SelectSeq(RulesInOrder, Violated)

\* C1: the history never holds more than 24 fingerprints, and an
\* update_password_data made when it holds 24 drops exactly the oldest
\* entry, keeps the other 23 in order and puts the new fingerprint last.
C1_BoundedFifo ==
    [][/\ Len(History) <= 24
       /\ Len(History') <= 24
       /\ (calls' # calls /\ Len(History) = 24) =>
             /\ Len(History') = 24
             /\ \A i \in 1..23 : History'[i] = History[i + 1]
             /\ History'[24] = hash_password(arg')]_vars

\* C1 witness: an update has just evicted from a full history (the 26th
\* call, with a password other than the fill password).
C1_Witness ==
    /\ op = "update_password_data"
    /\ Len(calls) = 26
    /\ arg = WeakPassword
    /\ Len(History) = 24

\* C2: is_password_reused(p) returns True whenever p is the password of the
\* most recent update_password_data call.
C2_ReusedAfterUpdate ==
    (op = "is_password_reused" /\ calls # <<>> /\ arg = calls[Len(calls)])
        => ret = TRUE

\* C2 witness: a reuse check of the password just recorded, here the empty
\* string, has returned.
C2_Witness ==
    /\ op = "is_password_reused"
    /\ calls # <<>>
    /\ arg = calls[Len(calls)]
    /\ arg = EmptyPassword
    /\ ret = TRUE

\* C3: is_password_reused(p) is true exactly when p is among the 24 most
\* recent update_password_data calls (the digests of the model's passwords
\* are distinct), for the value returned by a call and for every password
\* in every state.
C3_ReusedIffAmongLast24 ==
    /\ \A p \in Passwords :
         is_password_reused(user_password_data, p) <=> AmongLastCalls(p, 24)
    /\ op = "is_password_reused" => (ret <=> AmongLastCalls(arg, 24))

\* C3 witness: the first recorded password, followed by 24 calls with other
\* passwords, is reported as not reused.
C3_Witness ==
    /\ op = "is_password_reused"
    /\ Len(calls) = 25
    /\ arg = calls[1]
    /\ \A i \in 2..25 : calls[i] # arg
    /\ ret = FALSE

\* C4: with last_password_changed set, is_password_expired is true exactly
\* when the clock is more than 90 * 24 * 3600 seconds past it: false at
\* zero elapsed time and right after an update, false at exactly 90 days.
C4_ExpiredIffOver90Days ==
    /\ (op = "is_password_expired" /\ LastChanged # None)
          => (ret <=> now - LastChanged[1] > 90 * 24 * 3600)
    /\ (op = "is_password_expired" /\ LastChanged = Some(now)) => ret = FALSE
    /\ op = "update_password_data"
          => ~is_password_expired(user_password_data, now)
    /\ LastChanged # None =>
          \A t \in ClockValues :
             is_password_expired(user_password_data, t)
                <=> t - LastChanged[1] > 90 * 24 * 3600

\* C4 witness: an expiry check made exactly 90 days after the last change
\* has returned False.
C4_Witness ==
    /\ op = "is_password_expired"
    /\ LastChanged # None
    /\ now - LastChanged[1] = 90 * 24 * 3600
    /\ ret = FALSE

\* C5: as long as update_password_data was never called, is_password_expired
\* returns True at every clock value.
C5_ExpiredBeforeAnyChange ==
    calls = <<>> =>
        /\ op = "is_password_expired" => ret = TRUE
        /\ \A t \in ClockValues : is_password_expired(user_password_data, t)

\* C5 witness: an expiry check on the never-changed record, after the clock
\* has moved, has returned.
C5_Witness ==
    /\ calls = <<>>
    /\ op = "is_password_expired"
    /\ now > 0
    /\ ret = TRUE

\* C6: the issue list is the list of the violated rules, one issue each, in
\* the order length, uppercase, lowercase, digit, special; the boolean is
\* true iff the list is empty; a password shorter than 14 gets the length
\* issue, and one of length >= 14 with all four classes gets no issue.
C6_StrengthIssues ==
    op = "check_password_strength" =>
        /\ ret[2] = ExpectedIssues(arg)
        /\ ret[1] <=> (ret[2] = <<>>)
        /\ Len(arg) < 14 => ret[2] # <<>> /\ ret[2][1] = MsgLength
        /\ (/\ Len(arg) >= 14
            /\ HasChar(UpperChars, arg)
            /\ HasChar(LowerChars, arg)
            /\ HasChar(DigitChars, arg)
            /\ HasChar(SpecialChars, arg)) => ret = <<TRUE, <<>>>>

\* C6 witness: a password long enough that still breaks several rules gets
\* one issue for each of them.
C6_Witness ==
    /\ op = "check_password_strength"
    /\ Len(arg) >= 14
    /\ Len(ret[2]) >= 3

\* C7: only update_password_data changes the record: the strength check,
\* is_password_reused and is_password_expired leave last_password_changed
\* and the history as they were.
C7_OnlyUpdateMutates ==
    [][/\ user_password_data' # user_password_data
            => op' = "update_password_data"
       /\ op' \in {"is_password_reused", "is_password_expired",
                   "check_password_strength"}
            => /\ LastChanged' = LastChanged
               /\ History' = History]_vars

\* C7 witness: a reuse check has returned on a record that holds a history.
C7_Witness ==
    /\ op = "is_password_reused"
    /\ Len(History) >= 2
    /\ LastChanged # None

C9_UpdateAlwaysRecords ==
    /\ Len(History) = Min(Len(calls), 24)
    /\ op = "update_password_data" =>
          /\ ret = TRUE
          /\ LastChanged = Some(now)
          /\ History[Len(History)] = hash_password(arg)
    /\ \A p \in Passwords :
          LET r == update_password_data(user_password_data, p, now)
          IN  /\ r.ret = TRUE
              /\ r.data.last_password_changed = Some(now)
              /\ Len(r.data.password_history) = Min(Len(History) + 1, 24)
              /\ r.data.password_history[Len(r.data.password_history)]
                    = hash_password(p)

\* C9 witness: the empty password was recorded while its fingerprint was
\* already in the history, which now holds it twice.
C9_Witness ==
    /\ op = "update_password_data"
    /\ arg = EmptyPassword
    /\ Len(History) = 2
    /\ History[1] = History[2]

\* C10: last_password_changed is None exactly when the history is empty,
\* and once set it is never None again nor does the history empty again.
C10_UnsetIffEmpty ==
    [][/\ (LastChanged = None) <=> (History = <<>>)
       /\ (LastChanged' = None) <=> (History' = <<>>)
       /\ LastChanged # None => (LastChanged' # None /\ History' # <<>>)]_vars

\* C10 witness: a record whose history has rotated, with the time stamp set.
C10_Witness ==
    /\ Len(calls) >= 25
    /\ LastChanged # None
    /\ Len(History) = 24

====
